---- MODULE Spec2Model ----
(***************************************************************************)
(* Model of the cross-chain bridge listener of src/script.py: the StateDB  *)
(* (in-memory state and the state.json file), the source connector, the    *)
(* event parser, the relayer and the polling loop of                       *)
(* CrossChainBridgeListener.  The process may be killed at any point and   *)
(* started again on the same state file.  The source connector is modelled *)
(* by its interface: get_events_for_range returns an ordered batch of logs *)
(* of the requested range or raises.                                       *)
(***************************************************************************)
EXTENDS Integers, Sequences, FiniteSets, TLC

\* ---- program constants -------------------------------------------------
BLOCK_PROCESSING_BATCH_SIZE == 100
CONFIRMATIONS_REQUIRED == 6
max_events == 10000
\* get_latest_block advances the chain by random.randint(1, 3)
MaxBlockStep == 3
\* BRIDGE_ABI: two indexed inputs (user, token)
NumIndexedInputs == 2

\* ---- bounds of the model -----------------------------------------------
\* MockBlockchainConnector.__init__ draws current_block from a range; the
\* range is scaled down to a window just above the batch size.
MinStartBlock == 105
MaxStartBlock == 106
\* the chain is followed up to this height
MaxHeight == 109
\* number of times the process is killed/stopped and started again
MaxRestarts == 1
\* number of bridge logs on the source chain
MaxLogs == 2
\* SpecPrune: the dedup record starts PruneGap entries below the capacity
\* and MaxMarks keys are appended
PruneGap == 2
MaxMarks == 5
\* SpecRange: cursors and chain heights the range of a tick is computed for
MaxRangeCursor == 12
MinRangeHeight == 5
MaxRangeHeight == 119

VARIABLES
    file,             \* state.json: [kind, content]
    state,            \* StateDB.state
    state_is_dict,    \* whether StateDB.state is a dict (json.load returns any document)
    current_block,    \* source_connector.current_block
    source_connected, \* source_connector.is_connected
    dest_connected,   \* dest_connector.is_connected
    is_running,       \* CrossChainBridgeListener.is_running
    pc,               \* position of the process
    latest_block,     \* locals of _process_new_blocks
    from_block,
    to_block,
    logs,
    idx,              \* position of the for loop in logs
    restarts,         \* number of process starts after the first
    relay_calls,      \* history: event_hash -> calls of simulate_relay_transaction
    failed_pending,   \* history: logs whose relay returned False, not yet relayed successfully
    save_failed_from, \* history: from_block of the tick whose save_state failed, 0 if none
    save_old,         \* history: while the file is being written, the state a load returned before the write
    marks             \* history: number of keys appended by MarkStep

vars == <<file, state, state_is_dict, current_block, source_connected, dest_connected,
          is_running, pc, latest_block, from_block, to_block, logs, idx,
          restarts, relay_calls, failed_pending, save_failed_from, save_old,
          marks>>

locals == <<latest_block, from_block, to_block, logs, idx>>
history == <<relay_calls, failed_pending, save_failed_from, save_old, marks>>

\* ---- strings -----------------------------------------------------------
RECURSIVE str(_)
\* str(n) of a non-negative integer: its decimal digits
str(n) == IF n < 10 THEN <<n>> ELSE str(n \div 10) \o <<n % 10>>

Range(s) == {s[i] : i \in 1..Len(s)}

\* ---- logs of the source chain ------------------------------------------
\* transactionHash of transaction t: a fixed-length string
TxHash(t) == <<t>>
TopicsOfLength(n) == [i \in 1..n |-> i]

\* what a connector may report of a log: as emitted, invalidated by a reorg,
\* or with one topic fewer than the event has
LogVariants ==
    {[removed |-> FALSE, topics |-> TopicsOfLength(1 + NumIndexedInputs)],
     [removed |-> TRUE, topics |-> TopicsOfLength(1 + NumIndexedInputs)],
     [removed |-> FALSE, topics |-> TopicsOfLength(NumIndexedInputs)]}

\* the n-th log of the chain: every transaction carries two logs and
\* transaction t is mined in block t
LogUniverse ==
    {[blockNumber |-> (n + 1) \div 2, transactionHash |-> TxHash((n + 1) \div 2),
      logIndex |-> (n + 1) % 2, removed |-> v.removed, topics |-> v.topics] :
        n \in 1..MaxLogs, v \in LogVariants}

Before(a, b) ==
    \/ a.blockNumber < b.blockNumber
    \/ a.blockNumber = b.blockNumber /\ a.logIndex < b.logIndex

RECURSIVE Batches(_, _)
\* ordered sequences of at most n logs drawn from the set S
Batches(S, n) ==
    IF n = 0 THEN {<<>>}
    ELSE LET shorter == Batches(S, n - 1)
         IN  shorter \cup
             {Append(b, l) : b \in {s \in shorter : Len(s) = n - 1},
                             l \in S} 

Ordered(b) == \A i \in 1..Len(b) - 1 : Before(b[i], b[i + 1])

\* what get_events_for_range(from, to) may return: logs of the requested
\* blocks in ascending order.  The mock draws them at random (and
\* _create_mock_log raises on its abi_decode call, which TickBegin covers as
\* the raising outcome); the model admits every ordered batch a connector
\* can report, the same log in a later call included.
get_events_for_range(from, to) ==
    {b \in Batches({l \in LogUniverse : l.blockNumber >= from /\ l.blockNumber <= to},
                  MaxLogs) : Ordered(b)}

\* ---- StateDB ------------------------------------------------------------
DefaultState == [last_processed_block |-> 0, processed_event_hashes |-> <<>>]

Absent == [kind |-> "absent", content |-> DefaultState]
\* a file that was opened for writing and whose dump did not complete
Truncated == [kind |-> "truncated", content |-> DefaultState]
Json(s) == [kind |-> "json", content |-> s]

\* a file holding a JSON document that is not an object, such as []
NotAnObject == [kind |-> "not_object", content |-> DefaultState]

_load_state(f) == IF f.kind = "json" THEN f.content ELSE DefaultState

\* json.load succeeds on every JSON document and _load_state returns it as
\* it is: the loaded state is a dict only when the document is an object
\* (the two except clauses return the default dict)
_load_state_is_dict(f) == f.kind # "not_object"

\* json.dump(self.state, f) of a completed write
Dumped(s, is_dict) == IF is_dict THEN Json(s) ELSE NotAnObject

get_last_processed_block(s) == s.last_processed_block

set_last_processed_block(s, block_number) ==
    [s EXCEPT !.last_processed_block = block_number]

\* faulty variant: no key is ever found in the record
is_event_processed_never(s, event_hash) == FALSE

is_event_processed(s, event_hash) ==
    event_hash \in Range(s.processed_event_hashes)

\* faulty variant: the prune keeps the first max_events keys instead of the last
mark_event_as_processed_keep_oldest(s, event_hash) ==
    LET appended == Append(s.processed_event_hashes, event_hash)
        n == Len(appended)
    IN  [s EXCEPT !.processed_event_hashes =
            IF n > max_events THEN SubSeq(appended, 1, max_events)
            ELSE appended]

mark_event_as_processed(s, event_hash) ==
    LET appended == Append(s.processed_event_hashes, event_hash)
        n == Len(appended)
    IN  [s EXCEPT !.processed_event_hashes =
            IF n > max_events THEN SubSeq(appended, n - max_events + 1, n)
            ELSE appended]

\* ---- EventParser / dedup key --------------------------------------------
\* Web3.keccak(text=f"{transactionHash}{logIndex}"): the hash is taken as
\* collision free, so the key is the hashed text
event_hash(log) == log.transactionHash \o str(log.logIndex)

None == [event_name |-> "None"]

\* faulty variant: the topics are not read, a log with a missing topic still parses
parse_log_ignoring_topics(log) ==
    [event_name |-> "TokensLocked",
     transactionHash |-> log.transactionHash,
     blockNumber |-> log.blockNumber]

\* parse_log: log['topics'][i + 1] raises IndexError when a topic is missing,
\* which the except clause turns into None (the data of the logs of
\* LogUniverse decodes)
parse_log(log) ==
    IF Len(log.topics) < 1 + NumIndexedInputs THEN None
    ELSE [event_name |-> "TokensLocked",
          transactionHash |-> log.transactionHash,
          blockNumber |-> log.blockNumber]

\* ---- _process_new_blocks: the range --------------------------------------
\* faulty variant: the confirmations are not subtracted
ConfirmedHead_unconfirmed(latest) == latest

ConfirmedHead(latest) == latest - CONFIRMATIONS_REQUIRED

\* faulty variant: the early return of an empty range is missing
NothingToScan_never(from, to) == FALSE

NothingToScan(from, to) == from > to

\* faulty variant: the batch size is not applied
ClampToBlock_unclamped(from, to) == to

ClampToBlock(from, to) ==
    IF to - from > BLOCK_PROCESSING_BATCH_SIZE
    THEN from + BLOCK_PROCESSING_BATCH_SIZE - 1
    ELSE to

Keys == {event_hash(l) : l \in LogUniverse}
StartBlocks == MinStartBlock..MaxStartBlock

NoLocals ==
    /\ latest_block' = 0
    /\ from_block' = 0
    /\ to_block' = 0
    /\ logs' = <<>>
    /\ idx' = 0

InitialFiles == {Absent, NotAnObject}

Init ==
    /\ file \in InitialFiles
    /\ state = _load_state(file)
    /\ state_is_dict = _load_state_is_dict(file)
    /\ current_block \in StartBlocks
    /\ source_connected = FALSE
    /\ dest_connected = FALSE
    /\ is_running = FALSE
    /\ pc = "init"
    /\ latest_block = 0
    /\ from_block = 0
    /\ to_block = 0
    /\ logs = <<>>
    /\ idx = 0
    /\ restarts = 0
    /\ relay_calls = [k \in Keys |-> 0]
    /\ failed_pending = {}
    /\ save_failed_from = 0
    /\ save_old = DefaultState
    /\ marks = 0

\* ---- MockBlockchainConnector.connect -------------------------------------
\* connect(): is_connected is False exactly when 'fail' is in the rpc url
connect(url_has_fail) == ~url_has_fail

\* faulty variant: run() does not return when the source is not connected
CannotStart_never(src_connected) == FALSE

\* run(): "if not self.source_connector.is_connected: ... return"
CannotStart(src_connected) == ~src_connected

\* faulty variant: an error raised in a tick ends run()
AfterTickError_escapes == "exited"

\* where the process is after an error raised in a tick: the except clause
\* of _process_new_blocks or the except Exception clause of run() logs it
\* and the while loop goes on
AfterTickError == "idle"

\* run(), up to the loop: connect both connectors, return when the source
\* is not connected, else set is_running
Run ==
    /\ pc = "init"
    /\ \E src_fail \in BOOLEAN, dst_fail \in BOOLEAN :
        /\ source_connected' = connect(src_fail)
        /\ dest_connected' = connect(dst_fail)
        /\ IF CannotStart(source_connected')
           THEN /\ pc' = "exited"
                /\ is_running' = is_running
           ELSE /\ pc' = "idle"
                /\ is_running' = TRUE
    /\ UNCHANGED <<file, state, state_is_dict, current_block, locals, restarts,
                   history>>

\* _process_new_blocks up to the for loop: read the height, compute the
\* range, return when there is nothing to scan, fetch the logs
TickBegin ==
    /\ pc = "idle"
    /\ is_running
    /\ IF ~state_is_dict
       THEN \* get_last_processed_block raises AttributeError on self.state.get,
            \* run() logs the error and sleeps
            /\ pc' = AfterTickError
            /\ UNCHANGED <<current_block, locals>>
       ELSE IF ~source_connected
       THEN \* get_latest_block raises, run() logs the error and sleeps
            /\ pc' = AfterTickError
            /\ UNCHANGED <<current_block, locals>>
       ELSE \E step \in 1..MaxBlockStep :
            /\ current_block + step <= MaxHeight
            /\ current_block' = current_block + step
            /\ LET latest == current_block + step
                   from == get_last_processed_block(state) + 1
                   to == ConfirmedHead(latest)
               IN  IF NothingToScan(from, to)
                   THEN /\ pc' = "idle"
                        /\ NoLocals
                   ELSE \/ \* get_events_for_range raises: logged by the
                           \* except clause of _process_new_blocks
                           /\ pc' = AfterTickError
                           /\ NoLocals
                        \/ \E batch \in get_events_for_range(from, ClampToBlock(from, to)) :
                           /\ pc' = "loop"
                           /\ latest_block' = latest
                           /\ from_block' = from
                           /\ to_block' = ClampToBlock(from, to)
                           /\ logs' = batch
                           /\ idx' = 1
    /\ UNCHANGED <<file, state, state_is_dict, source_connected, dest_connected,
                   is_running, restarts, history>>

\* one iteration of the for loop over logs
ProcessLog ==
    /\ pc = "loop"
    /\ idx <= Len(logs)
    /\ idx' = idx + 1
    /\ LET log == logs[idx]
           h == event_hash(log)
       IN  IF is_event_processed(state, h)
           THEN UNCHANGED <<state, relay_calls, failed_pending>>
           ELSE IF parse_log(log) = None
           THEN UNCHANGED <<state, relay_calls, failed_pending>>
           ELSE \* simulate_relay_transaction returns True or False
                \E ok \in BOOLEAN :
                /\ relay_calls' = [relay_calls EXCEPT ![h] = @ + 1]
                /\ IF ok
                   THEN /\ state' = mark_event_as_processed(state, h)
                        /\ failed_pending' = {f \in failed_pending : f.key # h}
                   ELSE /\ UNCHANGED state
                        /\ failed_pending' = failed_pending \cup
                               {[key |-> h, blockNumber |-> log.blockNumber]}
    /\ UNCHANGED <<file, state_is_dict, current_block, source_connected,
                   dest_connected,
                   is_running, pc, latest_block, from_block, to_block, logs,
                   restarts, save_failed_from, save_old, marks>>

\* after the loop: set_last_processed_block(to_block), then save_state opens
\* the file for writing, which truncates it, or fails with an IOError that
\* save_state logs
FinishBatch ==
    /\ pc = "loop"
    /\ idx > Len(logs)
    /\ state' = set_last_processed_block(state, to_block)
    /\ \/ /\ file' = Truncated
          /\ save_old' = _load_state(file)
          /\ pc' = "writing"
          /\ UNCHANGED <<locals, save_failed_from>>
       \/ /\ save_failed_from' = from_block
          /\ pc' = "idle"
          /\ NoLocals
          /\ UNCHANGED <<file, save_old>>
    /\ UNCHANGED <<state_is_dict, current_block, source_connected,
                   dest_connected, is_running,
                   restarts, relay_calls, failed_pending, marks>>

\* save_state, json.dump: the write completes, or fails with an IOError
\* that save_state logs, leaving the partial file
WriteState ==
    /\ pc \in {"writing", "shutdown_writing"}
    /\ \/ /\ file' = Dumped(state, state_is_dict)
          /\ save_failed_from' = 0
       \/ /\ file' = file
          /\ save_failed_from' = IF pc = "writing" THEN from_block ELSE save_failed_from
    /\ pc' = IF pc = "writing" THEN "idle" ELSE "exited"
    /\ NoLocals
    /\ save_old' = DefaultState
    /\ UNCHANGED <<state, state_is_dict, current_block, source_connected,
                   dest_connected,
                   is_running, restarts, relay_calls, failed_pending, marks>>

\* KeyboardInterrupt inside the try block of run(): shutdown() clears
\* is_running and calls save_state, then the loop ends
Interrupt ==
    /\ pc \in {"idle", "loop", "writing"}
    /\ is_running
    /\ is_running' = FALSE
    /\ \/ /\ file' = Truncated
          /\ save_old' = _load_state(file)
          /\ pc' = "shutdown_writing"
       \/ /\ pc' = "exited"
          /\ UNCHANGED file
          /\ save_old' = DefaultState
    /\ NoLocals
    /\ UNCHANGED <<state, state_is_dict, current_block, source_connected,
                   dest_connected,
                   restarts, relay_calls, failed_pending, save_failed_from,
                   marks>>

\* the process is killed (or has ended) and is started again:
\* CrossChainBridgeListener.__init__ builds new connectors and loads the file
Restart ==
    /\ pc # "init"
    /\ restarts < MaxRestarts
    /\ restarts' = restarts + 1
    /\ state' = _load_state(file)
    /\ state_is_dict' = _load_state_is_dict(file)
    /\ current_block' \in StartBlocks
    /\ source_connected' = FALSE
    /\ dest_connected' = FALSE
    /\ is_running' = FALSE
    /\ pc' = "init"
    /\ NoLocals
    /\ save_failed_from' = 0
    /\ save_old' = DefaultState
    /\ UNCHANGED <<file, relay_calls, failed_pending, marks>>

Next ==
    \/ Run
    \/ TickBegin
    \/ ProcessLog
    \/ FinishBatch
    \/ WriteState
    \/ Interrupt
    \/ Restart

Spec == Init /\ [][Next]_vars

TypeOK ==
    /\ pc \in {"init", "idle", "loop", "writing", "shutdown_writing", "exited"}
    /\ state.last_processed_block \in 0..MaxHeight
    /\ restarts \in 0..MaxRestarts

\* ---- the dedup record on its own ----------------------------------------
\* a key of the record that was marked in an earlier run
OldKey(i) == TxHash(0) \o str(i)

InitPrune ==
    /\ file = Absent
    /\ \E n \in (max_events - PruneGap)..max_events :
          state = [last_processed_block |-> 0,
                   processed_event_hashes |-> [i \in 1..n |-> OldKey(i)]]
    /\ state_is_dict = TRUE
    /\ current_block = MinStartBlock
    /\ source_connected = TRUE
    /\ dest_connected = TRUE
    /\ is_running = TRUE
    /\ pc = "prune"
    /\ latest_block = 0
    /\ from_block = 0
    /\ to_block = 0
    /\ logs = <<>>
    /\ idx = 0
    /\ restarts = 0
    /\ relay_calls = [k \in Keys |-> 0]
    /\ failed_pending = {}
    /\ save_failed_from = 0
    /\ save_old = DefaultState
    /\ marks = 0

\* one call of mark_event_as_processed
MarkStep ==
    /\ pc = "prune"
    /\ marks < MaxMarks
    /\ marks' = marks + 1
    /\ \E k \in Keys : state' = mark_event_as_processed(state, k)
    /\ UNCHANGED <<file, state_is_dict, current_block, source_connected,
                   dest_connected,
                   is_running, pc, locals, restarts, relay_calls,
                   failed_pending, save_failed_from, save_old>>

SpecPrune == InitPrune /\ [][MarkStep]_vars

\* ---- the range of a tick on its own ----------------------------------------
InitRange ==
    /\ file = Absent
    /\ \E c \in 0..MaxRangeCursor :
          state = [last_processed_block |-> c, processed_event_hashes |-> <<>>]
    /\ state_is_dict = TRUE
    /\ current_block \in MinRangeHeight..MaxRangeHeight
    /\ source_connected = TRUE
    /\ dest_connected = TRUE
    /\ is_running = TRUE
    /\ pc = "range"
    /\ latest_block = 0
    /\ from_block = 0
    /\ to_block = 0
    /\ logs = <<>>
    /\ idx = 0
    /\ restarts = 0
    /\ relay_calls = [k \in Keys |-> 0]
    /\ failed_pending = {}
    /\ save_failed_from = 0
    /\ save_old = DefaultState
    /\ marks = 0

\* _process_new_blocks from the read of the height to the call of
\* get_events_for_range: pc tells whether the tick returned early ("noop")
\* or scans from_block..to_block ("scanned")
ScanRange ==
    /\ pc = "range"
    /\ \E step \in 1..MaxBlockStep :
        LET latest == current_block + step
            from == get_last_processed_block(state) + 1
            to == ConfirmedHead(latest)
        IN  /\ current_block' = latest
            /\ latest_block' = latest
            /\ from_block' = from
            /\ IF NothingToScan(from, to)
               THEN /\ pc' = "noop"
                    /\ to_block' = to
               ELSE /\ pc' = "scanned"
                    /\ to_block' = ClampToBlock(from, to)
    /\ UNCHANGED <<file, state, state_is_dict, source_connected, dest_connected,
                   is_running, logs, idx, restarts, history>>

SpecRange == InitRange /\ [][ScanRange]_vars

\* ---- properties ----------------------------------------------------------
Cursor == state.last_processed_block
Hashes == state.processed_event_hashes
SameRun == restarts' = restarts
Undecodable(log) == Len(log.topics) < 1 + NumIndexedInputs

\* C1: over the whole lifetime, restarts included, the relayer is called at
\* most once for every dedup key
C1_RelayedAtMostOnce == \A k \in Keys : relay_calls[k] <= 1

\* C2: while a log whose relay returned False is unresolved, the cursor
\* last_processed_block stays below that log's block
C2_FailureHoldsCursor ==
    \A f \in failed_pending : Cursor < f.blockNumber

\* C3: a tick that scans while a failed relay is unresolved starts at or
\* before the failed log's block, so the retry comes before any newer block
C3_RetryBeforeNewerBlocks ==
    pc = "loop" => \A f \in failed_pending : from_block <= f.blockNumber

\* C4: within one process run no step lowers the in-memory cursor
C4_CursorNonDecreasing ==
    [][SameRun => state'.last_processed_block >= state.last_processed_block]_vars

\* C4 witness: a second scanning tick of the first run has set the cursor
C4_Witness ==
    /\ pc = "writing"
    /\ restarts = 0
    /\ from_block > 1
    /\ Cursor = to_block

\* C5: the range handed to get_events_for_range ends at or below
\* latest_block - CONFIRMATIONS_REQUIRED of the same tick, and so does the
\* cursor the tick sets
C5_OnlyConfirmedBlocks ==
    /\ pc \in {"loop", "writing"} =>
          to_block <= latest_block - CONFIRMATIONS_REQUIRED
    /\ pc = "writing" => Cursor <= latest_block - CONFIRMATIONS_REQUIRED

\* C5 witness: a tick scans logs up to exactly the confirmed head
C5_Witness ==
    /\ pc = "loop"
    /\ Len(logs) > 0
    /\ to_block = latest_block - CONFIRMATIONS_REQUIRED

\* C6: an iteration of the loop over a log with removed = true neither calls
\* the relayer nor marks a key
C6_RemovedNeverActedOn ==
    [][(pc = "loop" /\ idx <= Len(logs) /\ logs[idx].removed /\ SameRun)
         => (relay_calls' = relay_calls
             /\ state'.processed_event_hashes = state.processed_event_hashes)]_vars

\* C7: a start after the process was killed during save_state loads either
\* the state before the write or the state being written
C7_AtomicSave ==
    [][(pc \in {"writing", "shutdown_writing"} /\ restarts' = restarts + 1)
         => (state' = save_old \/ state' = state)]_vars

\* C8: after a tick whose save_state failed, the next scanning tick starts
\* from the from_block of the failed tick
C8_FailedSaveKeepsRange ==
    (pc = "loop" /\ save_failed_from # 0) => from_block = save_failed_from

\* C9: an iteration over a log that does not decode relays nothing, marks
\* nothing and goes on to the next log of the batch, and the end of the
\* batch sets the cursor to to_block
C9_DecodeFailureSkipsOneLog ==
    [][(pc = "loop" /\ SameRun /\ is_running')
         => /\ (idx <= Len(logs)
                /\ ~is_event_processed(state, event_hash(logs[idx]))
                /\ Undecodable(logs[idx]))
               => /\ relay_calls' = relay_calls
                  /\ state' = state
                  /\ pc' = "loop"
                  /\ logs' = logs
                  /\ idx' = idx + 1
            /\ idx > Len(logs) => state'.last_processed_block = to_block]_vars

\* C9 witness: the batch held a log that did not decode and a later log that
\* was relayed, and the tick has set the cursor to to_block
C9_Witness ==
    /\ pc = "writing"
    /\ Cursor = to_block
    /\ \E i \in 1..Len(logs), j \in 1..Len(logs) :
        /\ i < j
        /\ Undecodable(logs[i])
        /\ event_hash(logs[i]) \notin Range(Hashes)
        /\ event_hash(logs[i]) # event_hash(logs[j])
        /\ relay_calls[event_hash(logs[j])] >= 1
        /\ event_hash(logs[j]) \in Range(Hashes)

\* C10: a call of mark_event_as_processed leaves at most max_events keys,
\* removes keys only when the capacity is exceeded, removes the oldest ones
\* and keeps the others in insertion order before the new key
C10_BoundedFifo ==
    [][LET old == state.processed_event_hashes
           new == state'.processed_event_hashes
           evicted == Len(old) + 1 - Len(new)
       IN  /\ Len(new) <= max_events
           /\ evicted >= 0
           /\ evicted > 0 => Len(new) = max_events
           /\ SubSeq(new, 1, Len(new) - 1) = SubSeq(old, evicted + 1, Len(old))]_vars

\* C10 witness: the record is at capacity and its oldest keys are gone
C10_Witness ==
    /\ pc = "prune"
    /\ marks > PruneGap
    /\ Len(Hashes) = max_events
    /\ Hashes[1] = OldKey(marks - PruneGap + 1)

\* C11: while the destination connector is not connected, no iteration of
\* the loop marks a key (no relay returns success)
C11_NoSuccessWhileDestDown ==
    [][(pc = "loop" /\ ~dest_connected /\ SameRun)
         => state'.processed_event_hashes = state.processed_event_hashes]_vars

\* C12: run() with the source not connected returns without a tick and
\* leaves the state file, the chain height and the relayer untouched, and no
\* tick ever runs while the source is not connected; with the source
\* connected it enters the loop whatever the destination's connect did
C12_StartupGating ==
    [][/\ (pc = "init" /\ SameRun /\ ~source_connected')
            => /\ pc' = "exited"
               /\ ~is_running'
               /\ file' = file
               /\ state' = state
               /\ current_block' = current_block
               /\ relay_calls' = relay_calls
       /\ (pc = "init" /\ SameRun /\ source_connected')
            => (pc' = "idle" /\ is_running')
       /\ ~source_connected' => pc' \in {"init", "exited"}]_vars

\* C12 witness: a later start on a written state file ended at the failed
\* connect of the source
C12_Witness ==
    /\ pc = "exited"
    /\ ~source_connected
    /\ ~is_running
    /\ restarts > 0
    /\ file.kind = "json"
    /\ file.content.last_processed_block > 0

\* C14: the shutdown signal does not end a tick inside its batch: is_running
\* is not cleared while logs of the fetched batch are being processed
C14_ShutdownNotMidBatch ==
    [][(pc = "loop" /\ SameRun) => is_running']_vars

\* C15: a step of the running listener other than the shutdown leaves it
\* running inside the loop: no error of a tick ends run()
C15_NoErrorEscapes ==
    [][(is_running /\ SameRun /\ is_running')
         => pc' \in {"idle", "loop", "writing"}]_vars

\* C15 witness: after a tick whose save_state failed, a further tick scans
C15_Witness ==
    /\ pc = "loop"
    /\ is_running
    /\ save_failed_from # 0

\* C16: a log whose relay succeeded and that a later tick fetches again is
\* skipped: the relayer is not called and the dedup record is unchanged
C16_SecondOccurrenceSkipped ==
    [][(/\ pc = "loop"
        /\ idx <= Len(logs)
        /\ SameRun
        /\ relay_calls[event_hash(logs[idx])] >= 1
        /\ \A f \in failed_pending : f.key # event_hash(logs[idx]))
         => (relay_calls' = relay_calls
             /\ state'.processed_event_hashes = state.processed_event_hashes)]_vars

\* C19: a tick that finds from_block > to_block after reading the height
\* returns: nothing is fetched, relayed or written, the cursor, the dedup
\* record and the file stay as they are; and no range with
\* from_block > to_block is ever fetched
C19_EmptyRangeIsNoOp ==
    [][/\ (/\ pc = "idle"
           /\ is_running
           /\ SameRun
           /\ is_running'
           /\ current_block' # current_block
           /\ state.last_processed_block + 1 > current_block' - CONFIRMATIONS_REQUIRED)
            => /\ pc' = "idle"
               /\ logs' = <<>>
               /\ state' = state
               /\ file' = file
               /\ relay_calls' = relay_calls
       /\ pc' \in {"loop", "writing"} => from_block' <= to_block']_vars

\* C19 witness: the listener sleeps after ticks that read a height whose
\* confirmed head is below the loaded cursor
C19_Witness ==
    /\ pc = "idle"
    /\ is_running
    /\ current_block > MaxStartBlock
    /\ Cursor > current_block - CONFIRMATIONS_REQUIRED
    /\ file = Json(state)

\* C20: an iteration of the loop changes the dedup record only by adding
\* the key of the log at hand, and only when that key was not in the
\* record, the log decoded and its relay returned success; every key of the
\* record has been relayed
C20_OnlyRelayedKeysMarked ==
    [][/\ (pc = "loop" /\ SameRun
           /\ state'.processed_event_hashes # state.processed_event_hashes)
            => /\ idx <= Len(logs)
               /\ event_hash(logs[idx]) \notin Range(state.processed_event_hashes)
               /\ ~Undecodable(logs[idx])
               /\ relay_calls'[event_hash(logs[idx])]
                     = relay_calls[event_hash(logs[idx])] + 1
               /\ \A f \in failed_pending' : f.key # event_hash(logs[idx])
               /\ event_hash(logs[idx]) \in Range(state'.processed_event_hashes)
               /\ Range(state'.processed_event_hashes) \subseteq
                     Range(state.processed_event_hashes) \cup {event_hash(logs[idx])}
       /\ \A k \in Range(state'.processed_event_hashes) : relay_calls'[k] >= 1]_vars

\* C20 witness: of a batch of two logs the first relay failed and the
\* second succeeded; only the second key is in the record
C20_Witness ==
    /\ pc = "loop"
    /\ Len(logs) = 2
    /\ idx = 3
    /\ event_hash(logs[1]) \notin Range(Hashes)
    /\ \E f \in failed_pending : f.key = event_hash(logs[1])
    /\ event_hash(logs[2]) \in Range(Hashes)

\* C17 as stated: with latest_block = 120 and the cursor at 0 the tick scans
\* the range 1..114
C17_Scans1To114 ==
    (pc \in {"scanned", "noop"} /\ latest_block = 120 /\ Cursor = 0)
        => (pc = "scanned" /\ from_block = 1 /\ to_block = 114)

\* C17 amended: with latest_block = 120 and the cursor at 0 the tick scans
\* the range 1..100
C17_Scans1To100 ==
    (pc \in {"scanned", "noop"} /\ latest_block = 120 /\ Cursor = 0)
        => (pc = "scanned" /\ from_block = 1 /\ to_block = 100)

\* C17 witness: the tick with latest_block = 120 and the cursor at 0 has
\* computed its range
C17_Witness ==
    /\ pc = "scanned"
    /\ latest_block = 120
    /\ Cursor = 0
    /\ to_block = 100

\* C18: a scanning tick starts at cursor + 1, ends at the smaller of the
\* confirmed head and from_block + batch size - 1, and so covers at most
\* batch size blocks
C18_RangeWithinBatch ==
    pc = "scanned" =>
        /\ from_block = Cursor + 1
        /\ to_block = IF latest_block - CONFIRMATIONS_REQUIRED
                            < from_block + BLOCK_PROCESSING_BATCH_SIZE - 1
                       THEN latest_block - CONFIRMATIONS_REQUIRED
                       ELSE from_block + BLOCK_PROCESSING_BATCH_SIZE - 1
        /\ to_block - from_block + 1 <= BLOCK_PROCESSING_BATCH_SIZE

\* C13: a process started on a state file that is absent or does not hold
\* a state document has the default state, a dict with cursor 0 and an empty
\* dedup record
C13_LoadNeverFails ==
    (pc = "init" /\ file.kind # "json")
        => /\ state_is_dict
           /\ state.last_processed_block = 0
           /\ state.processed_event_hashes = <<>>
====
